---- MODULE Spec2Model ----
(***************************************************************************)
(* A model of rust-bwa (src/src/lib.rs): the BwaReference lifecycle        *)
(* (open / Drop), the BwaAligner constructors (from_path / new) and the    *)
(* align_read_pair protocol run by several threads against one shared      *)
(* aligner: copy-in, the native call, the release of the name buffer, the  *)
(* line-by-line decode under the header_view mutex, and the release of the *)
(* two native output buffers.                                              *)
(*                                                                         *)
(* Spec is the whole lifecycle with the calls of the threads; ConfigSpec   *)
(* is the configuration of a session (the BwaSettings setters,             *)
(* PairedEndStats and create_bam_header); HistorySpec is Spec with the     *)
(* results of the calls kept by the caller; FairSpec is the calls on one   *)
(* session under fair scheduling.                                          *)
(*                                                                         *)
(* Text is modelled as sequences of byte codes.  A thread that panics      *)
(* unwinds: its pc becomes "panicked" and nothing after the panicking      *)
(* statement runs.                                                         *)
(***************************************************************************)
EXTENDS Integers, Sequences, FiniteSets, TLC

\* ------------------------------------------------------------- bounds
MaxCalls == 1
MaxContigs == 2
MaxRun == 3

\* the threads that share the aligner
Threads == {1, 2}

\* ------------------------------------------------------------- bytes
NUL == 0
NL == 10
TAB == 9
QUOTE == 34
BACKSLASH == 92


RECURSIVE Concat(_)
Concat(ss) == IF ss = <<>> THEN <<>> ELSE Head(ss) \o Concat(Tail(ss))

\* position of the first element of s satisfying the byte b, 0 when absent
RECURSIVE IndexOf(_, _, _)
IndexOf(s, b, from) ==
    IF from > Len(s) THEN 0
    ELSE IF s[from] = b THEN from
    ELSE IndexOf(s, b, from + 1)

\* needle occurs in hay as a contiguous run (str::contains)
Contains(hay, needle) ==
    \E i \in 0..(Len(hay) - Len(needle)) :
        \A j \in 1..Len(needle) : hay[i + j] = needle[j]

\* ------------------------------------------------------------- native index
\* bntann1_t entries of the native contig table ((*idx).bns.anns): a C-string
\* name and an int64 length.  BadName stands for a name that is not UTF-8.
BadName == "\\xFF"
PhiX == [name |-> "PhiX", len |-> 5386]
Chr == [name |-> "chr", len |-> 4639675]
BadContig == [name |-> BadName, len |-> 7]
NativeContigs == {PhiX, Chr, BadContig}

RECURSIVE SeqsUpTo(_, _)
SeqsUpTo(S, n) ==
    IF n = 0 THEN {<<>>}
    ELSE LET shorter == SeqsUpTo(S, n - 1)
         IN shorter \cup {Append(s, x) : s \in shorter, x \in S}

NoRepeat(s) == \A i, j \in 1..Len(s) : i # j => s[i] # s[j]

\* what bwa_idx_load can hand back for an indexed path: a bwaidx_t whose
\* bns holds n_seqs annotations
NativeIndexes ==
    {[null |-> FALSE, n_seqs |-> Len(a), anns |-> a] : a \in {s \in SeqsUpTo(NativeContigs, MaxContigs) : NoRepeat(s)}}

\* the null pointer bwa_idx_load returns on failure
NULL == [null |-> TRUE, n_seqs |-> 0, anns |-> <<>>]

\* paths given to open: "a", "a/b", "a\b"; only "a" has index files on disk
PathA == <<97>>
PathSlash == <<97, 47, 98>>
PathBackslash == <<97, 92, 98>>
Paths == {PathA, PathSlash, PathBackslash}
IndexedPaths == {PathA}

\* bwa_idx_load(path, 0x7): NULL for a path without index files
bwa_idx_load(path) == IF path \in IndexedPaths THEN NativeIndexes ELSE {NULL}

\* ------------------------------------------------------------- BwaReference::open
\* "couldn't load reference: "
ErrPrefix == <<99, 111, 117, 108, 100, 110, 39, 116, 32, 108, 111, 97, 100, 32,
               114, 101, 102, 101, 114, 101, 110, 99, 101, 58, 32>>

\* char::escape_debug as used by the Debug formatting of a Path / str
EscapeDebug(b) ==
    CASE b = QUOTE -> <<BACKSLASH, QUOTE>>
      [] b = BACKSLASH -> <<BACKSLASH, BACKSLASH>>
      [] b = NL -> <<BACKSLASH, 110>>
      [] b = 13 -> <<BACKSLASH, 114>>
      [] b = 9 -> <<BACKSLASH, 116>>
      [] OTHER -> <<b>>

\* format!("{:?}", path): the path between double quotes, each char escaped
DebugFmt(path) ==
    <<QUOTE>> \o Concat([i \in 1..Len(path) |-> EscapeDebug(path[i])]) \o <<QUOTE>>

\* format!("couldn't load reference: {:?}", path.as_ref())
LoadErrorMessage(path) == ErrPrefix \o DebugFmt(path)

\* CStr::to_owned().into_string(): Ok for UTF-8 names, Err (unwrap panics) otherwise
IsUtf8(name) == name # BadName

\* `sz as usize` of an int64 on a 64-bit target: a contig length is never
\* negative, and the cast leaves a non-negative value as it is
AsUsize(sz) == sz

\* for i in 0..num_contigs { contig_names.push(..); contig_lengths.push(..) }
\* acc.panic is set when into_string().unwrap() panics at contig i
\* a walk that stops one contig early
NumContigsLessOne(idx) == idx.n_seqs - 1

\* num_contigs = (*(*idx).bns).n_seqs, the end of the range 0..num_contigs
NumContigs(idx) == idx.n_seqs

RECURSIVE WalkContigs(_, _, _)
WalkContigs(idx, i, acc) ==
    IF i > NumContigs(idx) \/ acc.panic THEN acc
    ELSE IF ~IsUtf8(idx.anns[i].name)
         THEN [acc EXCEPT !.panic = TRUE]
         ELSE WalkContigs(idx, i + 1,
                  [acc EXCEPT !.contig_names = Append(@, idx.anns[i].name),
                              !.contig_lengths = Append(@, AsUsize(idx.anns[i].len))])

\* a load result that is never taken to be null
NeverNull(idx) == FALSE

\* the null check of open (lib.rs:116)
IsNull(idx) == idx.null

\* no BwaReference value
NoReference == [live |-> FALSE, bwt_data |-> NULL, contig_names |-> <<>>, contig_lengths |-> <<>>]

\* BwaReference::open(path) once bwa_idx_load returned idx: an Err value, a
\* panic, or Ok(BwaReference)
BwaReference_open(path, idx) ==
    IF IsNull(idx)
    THEN [tag |-> "Err", msg |-> LoadErrorMessage(path), walks |-> 0, reference |-> NoReference]
    ELSE LET w == WalkContigs(idx, 1, [contig_names |-> <<>>, contig_lengths |-> <<>>, panic |-> FALSE])
         IN IF w.panic
            THEN [tag |-> "Panic", msg |-> <<>>, walks |-> 1, reference |-> NoReference]
            ELSE [tag |-> "Ok", msg |-> <<>>, walks |-> 1,
                  reference |-> [live |-> TRUE,
                                 bwt_data |-> idx,
                                 contig_names |-> w.contig_names,
                                 contig_lengths |-> w.contig_lengths]]

\* ------------------------------------------------------------- BAM header
\* the record is put in front of the records already there
AddRefInFront(header, seq_name, seq_len) ==
    <<[rec |-> "SQ", SN |-> seq_name, LN |-> seq_len]>> \o header

\* add_ref_to_bam_header: one SQ record with tags SN and LN is pushed
add_ref_to_bam_header(header, seq_name, seq_len) ==
    Append(header, [rec |-> "SQ", SN |-> seq_name, LN |-> seq_len])

Min(a, b) == IF a < b THEN a ELSE b

\* populate_bam_header: for (name, len) in contig_names.zip(contig_lengths)
RECURSIVE populate_bam_header(_, _, _)
populate_bam_header(reference, header, i) ==
    IF i > Min(Len(reference.contig_names), Len(reference.contig_lengths)) THEN header
    ELSE populate_bam_header(reference,
             add_ref_to_bam_header(header, reference.contig_names[i], reference.contig_lengths[i]),
             i + 1)

\* the header is left as Header::new() made it
HeaderLeftEmpty(reference) == <<>>

\* create_bam_header: Header::new(), then populate_bam_header
create_bam_header(reference) == populate_bam_header(reference, <<>>, 1)

\* HeaderView::from_header: the target names in header order, and the interior
\* state that Record::from_sam mutates (lib.rs:219-221)
HeaderView_from_header(header) ==
    [targets |-> [i \in 1..Len(header) |-> header[i].SN], scratch |-> <<>>]

\* the UTF-8 bytes of a contig name
Utf8Bytes(name) ==
    CASE name = "PhiX" -> <<80, 104, 105, 88>>
      [] name = "chr" -> <<99, 104, 114>>
      [] OTHER -> <<63>>

\* the decimal digits of a non-negative number, as ASCII bytes
RECURSIVE Decimal(_)
Decimal(n) == IF n < 10 THEN <<48 + n>> ELSE Decimal(n \div 10) \o <<48 + (n % 10)>>

\* one header record as text: '@' and the record type, then for every tag a
\* TAB, the tag, ':' and the value
RecordText(r) ==
    <<64, 83, 81>> \o <<TAB, 83, 78, 58>> \o Utf8Bytes(r.SN)
                   \o <<TAB, 76, 78, 58>> \o Decimal(r.LN)

\* Header::to_bytes: the records in the order they were pushed, joined by '\n'
RECURSIVE Header_to_bytes(_)
Header_to_bytes(header) ==
    IF Len(header) = 0 THEN <<>>
    ELSE IF Len(header) = 1 THEN RecordText(header[1])
    ELSE Header_to_bytes(SubSeq(header, 1, Len(header) - 1)) \o <<NL>>
         \o RecordText(header[Len(header)])

\* the header a caller has built from a reference, and its text
NoHeader == [built |-> FALSE, header |-> <<>>, text |-> <<>>]

\* ------------------------------------------------------------- align_read_pair: data
\* argument tuples (name, r1, q1, r2, q2) a caller passes: three well-formed
\* pairs, a name with a tab, a quality string of read 2 with a tab, and a
\* name with a NUL
InSimple == [name |-> <<110>>, r1 |-> <<65, 67>>, q1 |-> <<50, 50>>, r2 |-> <<71>>, q2 |-> <<50>>]
InSplit == [name |-> <<110>>, r1 |-> <<84, 65>>, q1 |-> <<50, 50>>, r2 |-> <<71>>, q2 |-> <<50>>]
InOdd == [name |-> <<110>>, r1 |-> <<71, 71>>, q1 |-> <<50, 50>>, r2 |-> <<71>>, q2 |-> <<50>>]
InTabName == [name |-> <<110, TAB>>, r1 |-> <<65, 67>>, q1 |-> <<50, 50>>, r2 |-> <<71>>, q2 |-> <<50>>]
InTabQual == [name |-> <<110>>, r1 |-> <<65, 67>>, q1 |-> <<50, 50>>, r2 |-> <<71>>, q2 |-> <<TAB>>]
InNulName == [name |-> <<110, NUL>>, r1 |-> <<65, 67>>, q1 |-> <<50, 50>>, r2 |-> <<71>>, q2 |-> <<50>>]
Inputs == {InSimple, InSplit, InOdd, InTabName, InTabQual, InNulName}

\* CString::new(name): Err (unwrap panics) when the name holds an interior NUL
HasNul(bytes) == \E i \in 1..Len(bytes) : bytes[i] = NUL

\* nst_nt4_table: the 2-bit code the native routine writes over each base
Nt4(b) ==
    CASE b \in {65, 97} -> 0
      [] b \in {67, 99} -> 1
      [] b \in {71, 103} -> 2
      [] b \in {84, 116} -> 3
      [] OTHER -> 4

\* the byte that stands for a reference name in a line: 'P' PhiX, 'c' chr
NameByte(name) == IF name = "PhiX" THEN 80 ELSE 99

\* one line of native output: the read name, the reference name and
\* position, and the quality string, copied as given and separated by tabs
SamLine(name, body, qual) == name \o <<TAB>> \o body \o <<TAB>> \o qual

\* the reference field of a hit on contig i of the index at position digit
\* pos; '*' when the index has no contig i
Hit(idx, i, pos) ==
    IF i <= idx.n_seqs THEN <<NameByte(idx.anns[i].name), pos>> ELSE <<42>>

\* the two SAM texts mem_process_seq_pe writes for a pair, a function of the
\* index and of the name, bases and qualities it is given:
\*   bases AC: one line per read
\*   bases TA: two lines for read 1 (a split alignment), read 2 unmapped
\*   others:   read 1 with a blank line and no final newline, read 2 empty
NativeSam(idx, name, seq1, qual1, seq2, qual2) ==
    CASE seq1 = <<65, 67>> ->
            <<SamLine(name, Hit(idx, 2, 49), qual1) \o <<NL>>,
              SamLine(name, Hit(idx, 1, 50), qual2) \o <<NL>>>>
      [] seq1 = <<84, 65>> ->
            <<SamLine(name, Hit(idx, 2, 49), qual1) \o <<NL>>
                  \o SamLine(name, Hit(idx, 2, 50), qual1) \o <<NL>>,
              SamLine(name, <<42>>, qual2) \o <<NL>>>>
      [] OTHER ->
            <<SamLine(name, Hit(idx, 1, 49), qual1) \o <<NL, NL>>
                  \o SamLine(name, Hit(idx, 2, 49), qual1),
              <<>>>>

\* CStr::from_ptr(p).to_bytes(): the bytes before the first NUL
CStrToBytes(buf) ==
    LET z == IndexOf(buf, NUL, 1)
    IN IF z = 0 THEN buf ELSE SubSeq(buf, 1, z - 1)

\* core::slice::Split: the iterator state is the rest of the slice and a
\* finished flag; next() yields the run before the next separator
SplitInit(bytes) == [v |-> bytes, finished |-> FALSE]

SplitNext(it) ==
    IF it.finished
    THEN [some |-> FALSE, slc |-> <<>>, it |-> it]
    ELSE LET idx == IndexOf(it.v, NL, 1)
         IN IF idx = 0
            THEN [some |-> TRUE, slc |-> it.v, it |-> [v |-> <<>>, finished |-> TRUE]]
            ELSE [some |-> TRUE, slc |-> SubSeq(it.v, 1, idx - 1),
                  it |-> [v |-> SubSeq(it.v, idx + 1, Len(it.v)), finished |-> FALSE]]

\* if slc.len() > 0
NonEmpty(slc) == Len(slc) > 0

\* records.push(record)
Push(records, record) == Append(records, record)

\* the tab-separated fields of a line
RECURSIVE FieldsOf(_)
FieldsOf(line) ==
    LET i == IndexOf(line, TAB, 1)
    IN IF i = 0 THEN <<line>>
       ELSE <<SubSeq(line, 1, i - 1)>> \o FieldsOf(SubSeq(line, i + 1, Len(line)))

RName(b) ==
    CASE b = 80 -> "PhiX"
      [] b = 99 -> "chr"
      [] b = 42 -> "*"
      [] OTHER -> "?"

NoRecord == [tid |-> -1, text |-> <<>>]

TargetId(targets, name) ==
    IF \E i \in 1..Len(targets) : targets[i] = name
    THEN (CHOOSE i \in 1..Len(targets) : targets[i] = name) - 1
    ELSE -2

\* Record::from_sam(&header_view, line): Err when the line has not the
\* fields of a SAM line or names a reference the header view does not have,
\* else the record, its tid resolved against the targets
from_sam(targets, line) ==
    LET fields == FieldsOf(line)
    IN IF Len(fields) # 3 \/ \E i \in 1..Len(fields) : fields[i] = <<>>
       THEN [tag |-> "Err", record |-> NoRecord]
       ELSE LET name == RName(fields[2][1])
            IN IF name = "*" THEN [tag |-> "Ok", record |-> [tid |-> -1, text |-> line]]
               ELSE IF name = "?" \/ TargetId(targets, name) < 0
                    THEN [tag |-> "Err", record |-> NoRecord]
                    ELSE [tag |-> "Ok", record |-> [tid |-> TargetId(targets, name), text |-> line]]

\* ------------------------------------------------------------- BwaSettings
\* the values the test drivers hand to the setters (no range is validated)
ScoreVals == {-1, 2}
GapVals == {3}

\* bwa_fill_scmat(a, b, mat): the 5x5 matrix over A, C, G, T, N in row-major
\* order: a on the diagonal of the four bases, -b off it, -1 wherever N is met
bwa_fill_scmat(a, b) ==
    [k \in 1..25 |->
        LET i == (k - 1) \div 5
            j == (k - 1) % 5
        IN IF i = 4 \/ j = 4 THEN -1
           ELSE IF i = j THEN a ELSE 0 - b]

\* mem_opt_init(): the native defaults
mem_opt_init ==
    [a |-> 1, b |-> 4, o_del |-> 6, o_ins |-> 6, e_del |-> 1, e_ins |-> 1,
     pen_clip5 |-> 5, pen_clip3 |-> 5, pen_unpaired |-> 17, flag |-> 0,
     mat |-> bwa_fill_scmat(1, 4)]

\* BwaSettings::new(): a copy of the native defaults
BwaSettings_new == mem_opt_init

\* set_scores leaves the matrix of the value it was given
MatKept(s, matchp, mismatch) == s.mat

\* the matrix set_scores stores: rebuilt from the two arguments
MatRebuilt(s, matchp, mismatch) == bwa_fill_scmat(matchp, mismatch)

\* BwaSettings::set_scores(self, matchp, mismatch, gap_open, gap_extend)
set_scores(s, matchp, mismatch, gap_open, gap_extend) ==
    [s EXCEPT !.a = matchp, !.b = mismatch,
              !.o_del = gap_open, !.o_ins = gap_open,
              !.e_del = gap_extend, !.e_ins = gap_extend,
              !.mat = MatRebuilt(s, matchp, mismatch)]

\* BwaSettings::set_clip_scores(self, clip5, clip3)
set_clip_scores(s, clip5, clip3) == [s EXCEPT !.pen_clip5 = clip5, !.pen_clip3 = clip3]

\* BwaSettings::set_unpaired(self, unpaired)
set_unpaired(s, unpaired) == [s EXCEPT !.pen_unpaired = unpaired]

\* MEM_F_NO_MULTI
MEM_F_NO_MULTI == 16

\* flag | bit, for a bit that is a power of two
BitOr(flag, bit) == IF (flag \div bit) % 2 = 1 THEN flag ELSE flag + bit

\* BwaSettings::set_no_multi(self)
set_no_multi(s) == [s EXCEPT !.flag = BitOr(s.flag, MEM_F_NO_MULTI)]

\* ------------------------------------------------------------- PairedEndStats
\* the closure pe_stat_null of simple
pe_stat_null == [failed |-> 1, low |-> 0, high |-> 0, avg |-> 0, std |-> 100]

\* the supplied values stored in the first slot of the table
PesFirstSlot(avg, std, low, high) ==
    <<[failed |-> 0, low |-> low, high |-> high, avg |-> avg, std |-> std],
      pe_stat_null, pe_stat_null, pe_stat_null>>

\* the array pes of simple: mem_pestat_t[4], indexed 0..3 in C and 1..4 here
Pes(avg, std, low, high) ==
    <<pe_stat_null,
      [failed |-> 0, low |-> low, high |-> high, avg |-> avg, std |-> std],
      pe_stat_null, pe_stat_null>>

\* PairedEndStats::simple(avg, std, low, high); the two f64 arguments are
\* whole numbers in every call modelled
PairedEndStats_simple(avg, std, low, high) == [inner |-> Pes(avg, std, low, high)]

\* PairedEndStats::default()
PairedEndStats_default == PairedEndStats_simple(200, 100, 35, 600)

\* the arguments the test drivers hand to simple
AvgVals == {200, 350}
StdVals == {100}
LowVals == {35, 0}
HighVals == {600}

\* ------------------------------------------------------------- state
VARIABLES
    stage,        \* where the one reference / aligner of the run stands
    open_call,    \* the last open / from_path call: its path, whether the native
                  \* load returned null, and what the call returned
    reference,    \* a BwaReference owned by the caller (not yet moved into an aligner)
    aligner,      \* the BwaAligner: its reference field
    header_view,  \* the HeaderView behind Arc<Mutex<..>>: targets and interior state
    mutex,        \* the Mutex around header_view: owner (0 = unlocked) and poison flag
    hv_builds,    \* number of HeaderView::from_header calls
    walks,        \* number of walks of the native contig table
    destroy_log,  \* the handles passed to bwa_idx_destroy, in order
    frame,        \* per thread: the align_read_pair call it runs
    settings,     \* the BwaSettings value: the caller's until it moves into the aligner
    pe_stats,     \* the PairedEndStats value: the caller's until it moves into the aligner
    last_op,      \* the last settings / statistics operation called, and its arguments
    header_out,   \* the last Header a caller built with create_bam_header
    returned      \* what the align_read_pair calls returned so far: arguments and records

vars == <<stage, open_call, reference, aligner, header_view, mutex, hv_builds,
          walks, destroy_log, frame, settings, pe_stats, last_op, header_out, returned>>

cfgVars == <<settings, pe_stats, last_op, header_out>>

refVars == <<stage, open_call, reference, aligner, hv_builds, walks, destroy_log, cfgVars, returned>>

NoOp == [op |-> "none", args |-> <<>>]

NoArgs == [name |-> <<>>, r1 |-> <<>>, q1 |-> <<>>, r2 |-> <<>>, q2 |-> <<>>]
NoCopy == [r1 |-> <<>>, q1 |-> <<>>, r2 |-> <<>>, q2 |-> <<>>]
NullPtr == <<"null", "null">>
NoRead == [l_seq |-> 0, name |-> NullPtr, seq |-> NullPtr, qual |-> NullPtr, sam |-> NullPtr]
NoBuf == [st |-> "none", bytes |-> <<>>, frees |-> 0]

\* a thread outside align_read_pair
IdleFrame ==
    [pc |-> "idle",
     args |-> NoArgs,            \* the argument values of the call
     caller |-> NoArgs,          \* the caller's buffers, as they are in memory
     copy |-> NoCopy,            \* the Vec copies r1, q1, r2, q2
     reads |-> <<NoRead, NoRead>>,
     raw_name |-> NoBuf,         \* the CString handed out by into_raw
     natives |-> 0,              \* invocations of mem_process_seq_pe
     sam |-> <<NoBuf, NoBuf>>,   \* the native output buffers reads[k].sam
     k |-> 0,                    \* the read being parsed
     it |-> SplitInit(<<>>),     \* the split iterator of parse_sam_to_records
     slc |-> <<>>,
     record |-> NoRecord,
     records |-> <<>>,
     recs1 |-> <<>>,
     recs2 |-> <<>>,
     cause |-> "none",           \* what made the call panic
     calls |-> 0]                \* calls this thread has finished

NoOpen == [path |-> <<>>, null |-> FALSE, tag |-> "none", msg |-> <<>>]

Init ==
    /\ stage = "start"
    /\ open_call = NoOpen
    /\ reference = NoReference
    /\ aligner = [reference |-> NoReference]
    /\ header_view = HeaderView_from_header(<<>>)
    /\ mutex = [owner |-> 0, poisoned |-> FALSE]
    /\ hv_builds = 0
    /\ walks = 0
    /\ destroy_log = <<>>
    /\ frame = [t \in Threads |-> IdleFrame]
    /\ settings = BwaSettings_new
    /\ pe_stats = PairedEndStats_default
    /\ last_op = NoOp
    /\ header_out = NoHeader
    /\ returned = {}

\* ------------------------------------------------------------- lifecycle
\* bwa_idx_destroy(handle)
bwa_idx_destroy(log, handle) == Append(log, handle)

\* BwaReference::open(path) called by the user
Open(path) ==
    /\ stage = "start"
    /\ \E idx \in bwa_idx_load(path) :
        LET r == BwaReference_open(path, idx)
        IN /\ open_call' = [path |-> path, null |-> idx.null, tag |-> r.tag, msg |-> r.msg]
           /\ walks' = walks + r.walks
           /\ reference' = r.reference
           /\ stage' = CASE r.tag = "Ok" -> "opened"
                         [] r.tag = "Err" -> "failed"
                         [] OTHER -> "open_panicked"
    /\ UNCHANGED <<aligner, header_view, mutex, hv_builds, destroy_log, frame, cfgVars, returned>>

\* BwaAligner::new(reference, settings, pe_stats): the reference moves in
BwaAligner_new(ref) == [reference |-> ref]

New ==
    /\ stage = "opened"
    /\ header_view' = HeaderView_from_header(create_bam_header(reference))
    /\ hv_builds' = hv_builds + 1
    /\ mutex' = [owner |-> 0, poisoned |-> FALSE]
    /\ aligner' = BwaAligner_new(reference)
    /\ reference' = NoReference
    /\ stage' = "session"
    /\ UNCHANGED <<open_call, walks, destroy_log, frame, cfgVars, returned>>

\* BwaAligner::from_path(path): open(path)? and then new
FromPath(path) ==
    /\ stage = "start"
    /\ \E idx \in bwa_idx_load(path) :
        LET r == BwaReference_open(path, idx)
        IN /\ open_call' = [path |-> path, null |-> idx.null, tag |-> r.tag, msg |-> r.msg]
           /\ walks' = walks + r.walks
           /\ reference' = NoReference
           /\ IF r.tag = "Ok"
              THEN /\ header_view' = HeaderView_from_header(create_bam_header(r.reference))
                   /\ hv_builds' = hv_builds + 1
                   /\ mutex' = [owner |-> 0, poisoned |-> FALSE]
                   /\ aligner' = BwaAligner_new(r.reference)
                   /\ settings' = BwaSettings_new
                   /\ pe_stats' = PairedEndStats_default
                   /\ stage' = "session"
              ELSE /\ stage' = IF r.tag = "Err" THEN "failed" ELSE "open_panicked"
                   /\ UNCHANGED <<header_view, hv_builds, mutex, aligner, settings, pe_stats>>
    /\ UNCHANGED <<destroy_log, frame, last_op, header_out, returned>>

\* no call is taken to borrow the aligner
NeverBorrowed == FALSE

\* a shared borrow &self of the aligner is held by every call in progress
Borrowed == \E t \in Threads : frame[t].pc # "idle"

\* impl Drop for BwaReference, for a reference never moved into an aligner
DropReference ==
    /\ stage = "opened"
    /\ destroy_log' = bwa_idx_destroy(destroy_log, reference.bwt_data)
    /\ reference' = NoReference
    /\ stage' = "dropped"
    /\ UNCHANGED <<open_call, aligner, header_view, mutex, hv_builds, walks, frame, cfgVars, returned>>

\* the aligner goes out of scope: its reference field is dropped
DropAligner ==
    /\ stage = "session"
    /\ ~Borrowed
    /\ destroy_log' = bwa_idx_destroy(destroy_log, aligner.reference.bwt_data)
    /\ aligner' = [reference |-> NoReference]
    /\ stage' = "dropped"
    /\ UNCHANGED <<open_call, reference, header_view, mutex, hv_builds, walks, frame, cfgVars, returned>>

\* ------------------------------------------------------------- configuration
\* the settings and statistics values are the caller's until new() takes them
Configurable == stage \in {"start", "opened"}

\* settings = settings.set_scores(matchp, mismatch, gap_open, gap_extend)
SetScores(matchp, mismatch, gap_open, gap_extend) ==
    /\ Configurable
    /\ settings' = set_scores(settings, matchp, mismatch, gap_open, gap_extend)
    /\ last_op' = [op |-> "set_scores", args |-> <<matchp, mismatch, gap_open, gap_extend>>]
    /\ UNCHANGED <<stage, open_call, reference, aligner, header_view, mutex, hv_builds,
                   walks, destroy_log, frame, pe_stats, header_out, returned>>

\* settings = settings.set_clip_scores(clip5, clip3)
SetClipScores(clip5, clip3) ==
    /\ Configurable
    /\ settings' = set_clip_scores(settings, clip5, clip3)
    /\ last_op' = [op |-> "set_clip_scores", args |-> <<clip5, clip3>>]
    /\ UNCHANGED <<stage, open_call, reference, aligner, header_view, mutex, hv_builds,
                   walks, destroy_log, frame, pe_stats, header_out, returned>>

\* settings = settings.set_unpaired(unpaired)
SetUnpaired(unpaired) ==
    /\ Configurable
    /\ settings' = set_unpaired(settings, unpaired)
    /\ last_op' = [op |-> "set_unpaired", args |-> <<unpaired>>]
    /\ UNCHANGED <<stage, open_call, reference, aligner, header_view, mutex, hv_builds,
                   walks, destroy_log, frame, pe_stats, header_out, returned>>

\* settings = settings.set_no_multi()
SetNoMulti ==
    /\ Configurable
    /\ settings' = set_no_multi(settings)
    /\ last_op' = [op |-> "set_no_multi", args |-> <<>>]
    /\ UNCHANGED <<stage, open_call, reference, aligner, header_view, mutex, hv_builds,
                   walks, destroy_log, frame, pe_stats, header_out, returned>>

\* pe_stats = PairedEndStats::simple(avg, std, low, high)
Simple(avg, std, low, high) ==
    /\ Configurable
    /\ pe_stats' = PairedEndStats_simple(avg, std, low, high)
    /\ last_op' = [op |-> "simple", args |-> <<avg, std, low, high>>]
    /\ UNCHANGED <<stage, open_call, reference, aligner, header_view, mutex, hv_builds,
                   walks, destroy_log, frame, settings, header_out, returned>>

\* pe_stats = PairedEndStats::default()
Default ==
    /\ Configurable
    /\ pe_stats' = PairedEndStats_default
    /\ last_op' = [op |-> "default", args |-> <<>>]
    /\ UNCHANGED <<stage, open_call, reference, aligner, header_view, mutex, hv_builds,
                   walks, destroy_log, frame, settings, header_out, returned>>

\* header = reference.create_bam_header(), and header.to_bytes()
CreateBamHeader ==
    /\ stage = "opened"
    /\ LET h == create_bam_header(reference)
       IN header_out' = [built |-> TRUE, header |-> h, text |-> Header_to_bytes(h)]
    /\ last_op' = [op |-> "create_bam_header", args |-> <<>>]
    /\ UNCHANGED <<stage, open_call, reference, aligner, header_view, mutex, hv_builds,
                   walks, destroy_log, frame, settings, pe_stats, returned>>

\* ------------------------------------------------------------- align_read_pair
\* Vec::from(slice): a fresh buffer with the same bytes
VecFrom(bytes) == bytes

\* the seq pointer taken from the caller's slice instead of the copy
SeqPtrCaller(k) == <<"caller", IF k = 1 THEN "r1" ELSE "r2">>

\* where the seq / qual pointers of read k point (r1.as_mut_ptr(), ...)
SeqPtr(k) == <<"copy", IF k = 1 THEN "r1" ELSE "r2">>
QualPtr(k) == <<"copy", IF k = 1 THEN "q1" ELSE "q2">>

Load(f, ptr) == f[ptr[1]][ptr[2]]
Store(f, ptr, bytes) == [f EXCEPT ![ptr[1]][ptr[2]] = bytes]

\* the bseq1_t of read k (lib.rs:270-288)
PackRead(copy, k) ==
    [l_seq |-> Len(Load([copy |-> copy], <<"copy", IF k = 1 THEN "r1" ELSE "r2">>)),
     name |-> <<"raw_name", "name">>,
     seq |-> SeqPtr(k),
     qual |-> QualPtr(k),
     sam |-> NullPtr]

\* the pointer of a CString that is dropped at once (as_ptr of a temporary)
AsPtrOfTemporary(name) == [st |-> "freed", bytes |-> name \o <<NUL>>, frees |-> 1]

\* CString::new(name).unwrap().into_raw(): the buffer stays allocated until
\* from_raw takes it back
IntoRaw(name) == [st |-> "live", bytes |-> name \o <<NUL>>, frees |-> 0]

\* lines 260-290: the CString of the name, the four copies, the two records
Begin(t, in) ==
    /\ stage = "session"
    /\ frame[t].pc = "idle"
    /\ IF HasNul(in.name)
       THEN frame' = [frame EXCEPT ![t] =
                [@ EXCEPT !.pc = "panicked", !.cause = "name_nul", !.args = in, !.caller = in]]
       ELSE LET copy == [r1 |-> VecFrom(in.r1), q1 |-> VecFrom(in.q1),
                         r2 |-> VecFrom(in.r2), q2 |-> VecFrom(in.q2)]
            IN frame' = [frame EXCEPT ![t] =
                   [@ EXCEPT !.pc = "packed", !.args = in, !.caller = in, !.copy = copy,
                             !.raw_name = IntoRaw(in.name),
                             !.reads = <<PackRead(copy, 1), PackRead(copy, 2)>>]]
    /\ UNCHANGED <<refVars, header_view, mutex>>

\* a thread calls align_read_pair, at most MaxCalls times
Call(t, in) ==
    /\ frame[t].calls < MaxCalls
    /\ Begin(t, in)

\* the calls started so far by the two threads together
Started ==
    LET Busy(t) == IF frame[t].pc = "idle" THEN 0 ELSE 1
    IN frame[1].calls + Busy(1) + frame[2].calls + Busy(2)

\* a thread calls align_read_pair, in a run of at most MaxRun calls
CallInRun(t, in) ==
    /\ Started < MaxRun
    /\ Begin(t, in)

\* the thread enters mem_process_seq_pe (lib.rs:294-303)
NativeEnter(t) ==
    /\ frame[t].pc = "packed"
    /\ frame' = [frame EXCEPT ![t] = [@ EXCEPT !.pc = "native", !.natives = @ + 1]]
    /\ UNCHANGED <<refVars, header_view, mutex>>

\* the bases read k points at, overwritten in place with their 2-bit codes
Rewrite(f, k) ==
    LET old == Load(f, f.reads[k].seq)
    IN Store(f, f.reads[k].seq, [i \in 1..Len(old) |-> Nt4(old[i])])

\* mem_process_seq_pe returns: the inputs are rewritten in place and each
\* read's sam slot points at a native-allocated NUL-terminated text
NativeReturn(t) ==
    /\ frame[t].pc = "native"
    /\ LET f == frame[t]
           out == NativeSam(aligner.reference.bwt_data, CStrToBytes(f.raw_name.bytes),
                            Load(f, f.reads[1].seq), Load(f, f.reads[1].qual),
                            Load(f, f.reads[2].seq), Load(f, f.reads[2].qual))
           g == Rewrite(Rewrite(f, 1), 2)
       IN frame' = [frame EXCEPT ![t] =
              [g EXCEPT !.pc = "returned",
                        !.sam = <<[st |-> "live", bytes |-> out[1] \o <<NUL>>, frees |-> 0],
                                  [st |-> "live", bytes |-> out[2] \o <<NUL>>, frees |-> 0]>>,
                        !.reads = <<[g.reads[1] EXCEPT !.sam = <<"sam", 1>>],
                                    [g.reads[2] EXCEPT !.sam = <<"sam", 2>>]>>]]
    /\ UNCHANGED <<refVars, header_view, mutex>>

\* libc free / drop of a buffer
Free(buf) == [buf EXCEPT !.st = "freed", !.frees = @ + 1]

\* let _ = CString::from_raw(raw_name)  (lib.rs:304)
FreeName(t) ==
    /\ frame[t].pc = "returned"
    /\ frame' = [frame EXCEPT ![t] = [@ EXCEPT !.pc = "parse", !.raw_name = Free(@), !.k = 1]]
    /\ UNCHANGED <<refVars, header_view, mutex>>

\* both parses are given read 1's text
SamBytesFirst(f, k) == CStrToBytes(f.sam[f.reads[1].sam[2]].bytes)

\* the buffer parse_sam_to_records is given for read k (lib.rs:308-312)
SamBytes(f, k) == CStrToBytes(f.sam[f.reads[k].sam[2]].bytes)

\* parse_sam_to_records(samK.to_bytes()) starts: an empty Vec and the iterator
ParseBegin(t) ==
    /\ frame[t].pc = "parse"
    /\ frame' = [frame EXCEPT ![t] =
           [@ EXCEPT !.pc = "iter", !.records = <<>>, !.it = SplitInit(SamBytes(frame[t], frame[t].k))]]
    /\ UNCHANGED <<refVars, header_view, mutex>>

\* one turn of `for slc in sam.split(..)`: the loop ends, skips an empty
\* slice, or goes on to decode a non-empty one
Iter(t) ==
    /\ frame[t].pc = "iter"
    /\ LET f == frame[t]
           n == SplitNext(f.it)
       IN frame' = [frame EXCEPT ![t] =
              IF ~n.some
              THEN IF f.k = 1
                   THEN [f EXCEPT !.pc = "parse", !.recs1 = f.records, !.records = <<>>, !.k = 2]
                   ELSE [f EXCEPT !.pc = "free1", !.recs2 = f.records, !.records = <<>>]
              ELSE IF NonEmpty(n.slc)
                   THEN [f EXCEPT !.pc = "lock", !.it = n.it, !.slc = n.slc]
                   ELSE [f EXCEPT !.it = n.it]]
    /\ UNCHANGED <<refVars, header_view, mutex>>

\* a lock that is granted whoever owns the mutex
CanLockAlways(t) == TRUE

\* Mutex::lock returns only when no thread owns the mutex
CanLock(t) == mutex.owner = 0

\* the guard is dropped as soon as lock() returns (`let _ = ...lock()`)
GuardDropped(t) == mutex

\* the mutex while thread t holds the MutexGuard bound to `header_view`
Guard(t) == [mutex EXCEPT !.owner = t]

\* self.header_view.lock().unwrap(): the guard, or a panic when poisoned
Lock(t) ==
    /\ frame[t].pc = "lock"
    /\ CanLock(t)
    /\ IF mutex.poisoned
       THEN /\ frame' = [frame EXCEPT ![t] = [@ EXCEPT !.pc = "panicked", !.cause = "poisoned"]]
            /\ UNCHANGED mutex
       ELSE /\ frame' = [frame EXCEPT ![t] = [@ EXCEPT !.pc = "from_sam"]]
            /\ mutex' = Guard(t)
    /\ UNCHANGED <<refVars, header_view>>

\* Record::from_sam starts on slc: it writes the header view's interior state
FromSamEnter(t) ==
    /\ frame[t].pc = "from_sam"
    /\ header_view' = [header_view EXCEPT !.scratch = frame[t].slc]
    /\ frame' = [frame EXCEPT ![t] = [@ EXCEPT !.pc = "from_sam2"]]
    /\ UNCHANGED <<refVars, mutex>>

\* an Err is passed over as if it were a value
UnwrapOrSkip(r) == "value"

\* Result::unwrap: the Ok value, or a panic
Unwrap(r) == IF r.tag = "Ok" THEN "value" ELSE "panic"

\* Record::from_sam returns and is unwrapped: the record, or a panic whose
\* unwinding drops the guard and poisons the mutex
FromSamReturn(t) ==
    /\ frame[t].pc = "from_sam2"
    /\ LET r == from_sam(header_view.targets, header_view.scratch)
       IN IF Unwrap(r) = "value"
          THEN /\ frame' = [frame EXCEPT ![t] = [@ EXCEPT !.pc = "unlock", !.record = r.record]]
               /\ UNCHANGED mutex
          ELSE /\ frame' = [frame EXCEPT ![t] = [@ EXCEPT !.pc = "panicked", !.cause = "decode"]]
               /\ mutex' = [owner |-> 0, poisoned |-> TRUE]
    /\ UNCHANGED <<refVars, header_view>>

\* the guard outlives the block: the mutex stays owned
GuardKept(t) == mutex

\* the mutex once the MutexGuard of thread t is dropped
GuardDrop(t) == [mutex EXCEPT !.owner = 0]

\* the guard is dropped at the end of the block, then records.push(record)
Unlock(t) ==
    /\ frame[t].pc = "unlock"
    /\ mutex' = GuardDrop(t)
    /\ frame' = [frame EXCEPT ![t] =
           [@ EXCEPT !.pc = "iter", !.records = Push(@, frame[t].record), !.record = NoRecord, !.slc = <<>>]]
    /\ UNCHANGED <<refVars, header_view>>

\* both frees are given reads[0].sam
FreedFirst(f, k) == f.reads[1].sam[2]

\* the buffer the k-th free releases: the one reads[k-1].sam points at
Freed(f, k) == f.reads[k].sam[2]

\* libc::free(reads[0].sam); libc::free(reads[1].sam)  (lib.rs:314-317)
FreeSam(t) ==
    /\ frame[t].pc \in {"free1", "free2"}
    /\ LET k == IF frame[t].pc = "free1" THEN 1 ELSE 2
           b == Freed(frame[t], k)
       IN frame' = [frame EXCEPT ![t] =
              [@ EXCEPT !.pc = IF k = 1 THEN "free2" ELSE "done", !.sam[b] = Free(@)]]
    /\ UNCHANGED <<refVars, header_view, mutex>>

\* (recs1, recs2) is returned and the frame is gone
Return(t) ==
    /\ frame[t].pc = "done"
    /\ frame' = [frame EXCEPT ![t] = [IdleFrame EXCEPT !.calls = frame[t].calls + 1]]
    /\ UNCHANGED <<refVars, header_view, mutex>>

\* (recs1, recs2) is returned and the caller keeps it next to the arguments
ReturnKept(t) ==
    /\ frame[t].pc = "done"
    /\ frame' = [frame EXCEPT ![t] = [IdleFrame EXCEPT !.calls = frame[t].calls + 1]]
    /\ returned' = returned \cup {[args |-> frame[t].args, recs1 |-> frame[t].recs1,
                                    recs2 |-> frame[t].recs2]}
    /\ UNCHANGED <<stage, open_call, reference, aligner, hv_builds, walks, destroy_log,
                   cfgVars, header_view, mutex>>

\* the panic has unwound align_read_pair: the frame is gone, nothing is returned
Unwind(t) ==
    /\ frame[t].pc = "panicked"
    /\ frame' = [frame EXCEPT ![t] = [IdleFrame EXCEPT !.calls = frame[t].calls + 1]]
    /\ UNCHANGED <<refVars, header_view, mutex>>

Next ==
    \/ \E p \in Paths : Open(p)
    \/ \E p \in Paths : FromPath(p)
    \/ New
    \/ DropReference
    \/ DropAligner
    \/ \E t \in Threads :
        \/ \E in \in Inputs : Call(t, in)
        \/ NativeEnter(t)
        \/ NativeReturn(t)
        \/ FreeName(t)
        \/ ParseBegin(t)
        \/ Iter(t)
        \/ Lock(t)
        \/ FromSamEnter(t)
        \/ FromSamReturn(t)
        \/ Unlock(t)
        \/ FreeSam(t)
        \/ Return(t)
        \/ Unwind(t)

Spec == Init /\ [][Next]_vars

\* a step of thread t inside align_read_pair, the return or the unwinding included
Step(t) ==
    \/ NativeEnter(t)
    \/ NativeReturn(t)
    \/ FreeName(t)
    \/ ParseBegin(t)
    \/ Iter(t)
    \/ Lock(t)
    \/ FromSamEnter(t)
    \/ FromSamReturn(t)
    \/ Unlock(t)
    \/ FreeSam(t)
    \/ Return(t)
    \/ Unwind(t)

\* the index of the test reference: PhiX, then chr
TestIndex == [null |-> FALSE, n_seqs |-> 2, anns |-> <<PhiX, Chr>>]

\* the state right after BwaAligner::from_path has returned a session over
\* the test reference
SessionInit ==
    LET r == BwaReference_open(PathA, TestIndex)
    IN /\ stage = "session"
       /\ open_call = [path |-> PathA, null |-> FALSE, tag |-> r.tag, msg |-> r.msg]
       /\ reference = NoReference
       /\ aligner = BwaAligner_new(r.reference)
       /\ header_view = HeaderView_from_header(create_bam_header(r.reference))
       /\ mutex = [owner |-> 0, poisoned |-> FALSE]
       /\ hv_builds = 1
       /\ walks = r.walks
       /\ destroy_log = <<>>
       /\ frame = [t \in Threads |-> IdleFrame]
       /\ settings = BwaSettings_new
       /\ pe_stats = PairedEndStats_default
       /\ last_op = NoOp
       /\ header_out = NoHeader
       /\ returned = {}

\* the calls whose lines all decode on that session, and one whose name
\* holds a NUL byte
DecodableInputs == {InSimple, InSplit, InOdd, InNulName}

\* the calls of the threads on that session, until it is dropped
SessionNext ==
    \/ DropAligner
    \/ \E t \in Threads :
        \/ \E in \in DecodableInputs : Call(t, in)
        \/ NativeEnter(t)
        \/ NativeReturn(t)
        \/ FreeName(t)
        \/ ParseBegin(t)
        \/ Iter(t)
        \/ Lock(t)
        \/ FromSamEnter(t)
        \/ FromSamReturn(t)
        \/ Unlock(t)
        \/ FreeSam(t)
        \/ Return(t)
        \/ Unwind(t)

\* fair scheduling: a thread that can take a step of its call is not left
\* waiting forever (the native routine returns, a free mutex is granted)
FairSpec == SessionInit /\ [][SessionNext]_vars /\ \A t \in Threads : WF_vars(Step(t))

\* the configuration of a session: the reference is opened, the settings and
\* the statistics are built up and handed to new()
ConfigNext ==
    \/ \E p \in Paths : Open(p)
    \/ New
    \/ \E m \in ScoreVals, x \in ScoreVals, o \in GapVals, e \in GapVals : SetScores(m, x, o, e)
    \/ \E c5 \in ScoreVals, c3 \in ScoreVals : SetClipScores(c5, c3)
    \/ \E u \in ScoreVals : SetUnpaired(u)
    \/ SetNoMulti
    \/ \E a \in AvgVals, sd \in StdVals, lo \in LowVals, hi \in HighVals : Simple(a, sd, lo, hi)
    \/ Default
    \/ CreateBamHeader

ConfigSpec == Init /\ [][ConfigNext]_vars

\* a run of a session in which the caller keeps every pair of record sequences
\* returned to it, next to the arguments of the call
HistoryNext ==
    \/ \E p \in Paths : Open(p)
    \/ \E p \in Paths : FromPath(p)
    \/ New
    \/ DropReference
    \/ DropAligner
    \/ \E t \in Threads :
        \/ \E in \in Inputs : CallInRun(t, in)
        \/ NativeEnter(t)
        \/ NativeReturn(t)
        \/ FreeName(t)
        \/ ParseBegin(t)
        \/ Iter(t)
        \/ Lock(t)
        \/ FromSamEnter(t)
        \/ FromSamReturn(t)
        \/ Unlock(t)
        \/ FreeSam(t)
        \/ ReturnKept(t)
        \/ Unwind(t)

HistorySpec == Init /\ [][HistoryNext]_vars

\* ------------------------------------------------------------- properties
InCall(f) == f.pc \notin {"idle", "panicked"}

IsPrefix(s, u) == Len(s) <= Len(u) /\ SubSeq(u, 1, Len(s)) = s

\* the lines of a text, by position: a line starts at a non-newline byte that
\* is first or follows a newline, and runs up to the next newline or the end
LineStarts(bytes) ==
    {i \in 1..Len(bytes) : bytes[i] # NL /\ (i = 1 \/ bytes[i - 1] = NL)}

LineEnd(bytes, i) ==
    CHOOSE j \in i..Len(bytes) :
        /\ \A x \in i..j : bytes[x] # NL
        /\ (j = Len(bytes) \/ bytes[j + 1] = NL)

NthStart(bytes, n) ==
    CHOOSE i \in LineStarts(bytes) : Cardinality({x \in LineStarts(bytes) : x < i}) = n - 1

LinesOf(bytes) ==
    [n \in 1..Cardinality(LineStarts(bytes)) |->
        SubSeq(bytes, NthStart(bytes, n), LineEnd(bytes, NthStart(bytes, n)))]

\* the text the native routine produces for read k of a call with these arguments
OwnText(args, k) ==
    NativeSam(aligner.reference.bwt_data, args.name, args.r1, args.q1, args.r2, args.q2)[k]

\* what a call running alone decodes from read k's text: the record of each
\* line in turn, up to the first line that does not decode
RECURSIVE DecodeUpToError(_, _)
DecodeUpToError(targets, lines) ==
    IF lines = <<>> THEN <<>>
    ELSE LET r == from_sam(targets, Head(lines))
         IN IF r.tag = "Ok"
            THEN <<r.record>> \o DecodeUpToError(targets, Tail(lines))
            ELSE <<>>

AloneRecords(args, k) == DecodeUpToError(header_view.targets, LinesOf(OwnText(args, k)))

AllDecode(args, k) ==
    \A i \in 1..Len(LinesOf(OwnText(args, k))) :
        from_sam(header_view.targets, LinesOf(OwnText(args, k))[i]).tag = "Ok"

InDecode(f) == f.pc \in {"from_sam", "from_sam2", "unlock"}

\* C2: at most one thread is between the acquisition of the header view's
\* mutex and the drop of its guard, so at most one thread is inside
\* Record::from_sam, and that thread is the owner of the mutex.
DecodeMutualExclusion ==
    /\ Cardinality({t \in Threads : InDecode(frame[t])}) <= 1
    /\ \A t \in Threads : InDecode(frame[t]) => mutex.owner = t

\* one thread is inside from_sam while another waits at lock()
DecodeContentionWitness ==
    \E t, u \in Threads :
        /\ t # u
        /\ frame[t].pc = "from_sam2"
        /\ frame[u].pc = "lock"

\* C3 (as claimed): each native output buffer of a call is freed at most
\* once, only after both parses have ended, and exactly once by the time the
\* call has ended, whether it returns or a decode failure ends it.
SamBuffersReleasedOnEveryExit ==
    \A t \in Threads : \A k \in {1, 2} :
        LET f == frame[t]
            b == f.sam[k]
        IN /\ b.frees <= 1
           /\ b.st = "freed" => f.pc \in {"free2", "done"}
           /\ (f.pc \in {"done", "panicked"} /\ b.st # "none") => b.frees = 1

\* C4 (as claimed): no call ends in a panic raised by a decode failure; the
\* failure comes back as an error value.
DecodeFailureIsErrorValue ==
    \A t \in Threads : ~(frame[t].pc = "panicked" /\ frame[t].cause = "decode")

\* C4 (amended): a decode failure ends the call by a panic and never by a
\* partial result: a call that panicked on a decode holds a line of its own
\* text that does not decode, and a call that returns has decoded every line
\* of both texts, one record per line.
DecodeFailurePanicsWholeCall ==
    \A t \in Threads :
        LET f == frame[t]
        IN /\ (f.pc = "panicked" /\ f.cause = "decode") =>
                /\ from_sam(header_view.targets, f.slc).tag = "Err"
                /\ \E i \in 1..Len(LinesOf(OwnText(f.args, f.k))) :
                       LinesOf(OwnText(f.args, f.k))[i] = f.slc
                /\ f.recs2 = <<>>
           /\ f.pc \in {"free1", "free2", "done"} =>
                \A k \in {1, 2} :
                    /\ AllDecode(f.args, k)
                    /\ Len(IF k = 1 THEN f.recs1 ELSE f.recs2) = Len(LinesOf(OwnText(f.args, k)))

\* read 1 decoded to one record, then a line of read 2 failed and the call panicked
DecodeFailureWitness ==
    \E t \in Threads :
        /\ frame[t].pc = "panicked"
        /\ frame[t].cause = "decode"
        /\ frame[t].k = 2
        /\ Len(frame[t].recs1) = 1

\* the text in a native output buffer: its bytes without the final NUL
BufferText(b) == SubSeq(b.bytes, 1, Len(b.bytes) - 1)

\* C5: once both parses have ended, the sequence of read k holds one record
\* per non-empty line of read k's own output buffer, in line order.
RecordsFollowLines ==
    \A t \in Threads :
        LET f == frame[t]
        IN f.pc \in {"free1", "free2", "done"} =>
            \A k \in {1, 2} :
                LET lines == LinesOf(BufferText(f.sam[k]))
                    recs == IF k = 1 THEN f.recs1 ELSE f.recs2
                IN /\ Len(recs) = Len(lines)
                   /\ \A i \in 1..Len(lines) : recs[i].text = lines[i]

\* a call returns for a read-1 text with a blank line and no final newline
\* and an empty read-2 text
RecordsFollowLinesWitness ==
    \E t \in Threads :
        /\ frame[t].pc = "done"
        /\ \E i \in 1..Len(frame[t].sam[1].bytes) - 1 :
               frame[t].sam[1].bytes[i] = NL /\ frame[t].sam[1].bytes[i + 1] = NL
        /\ frame[t].sam[1].bytes[Len(frame[t].sam[1].bytes) - 1] # NL
        /\ Len(frame[t].recs1) = 2
        /\ frame[t].recs2 = <<>>

\* C6: from the start of a call to its end the caller's five buffers hold the
\* bytes that were passed, and the pointers given to the native routine point
\* into the copies.
CallerBuffersUntouched ==
    \A t \in Threads :
        LET f == frame[t]
        IN f.pc # "idle" =>
            /\ f.caller = f.args
            /\ f.cause # "name_nul" =>
                \A k \in {1, 2} : f.reads[k].seq[1] = "copy" /\ f.reads[k].qual[1] = "copy"

\* the native routine has returned and has rewritten the copy of seq1
CallerBuffersWitness ==
    \E t \in Threads :
        /\ frame[t].pc = "returned"
        /\ frame[t].copy.r1 # frame[t].args.r1
        /\ frame[t].caller.r1 = frame[t].args.r1

\* the BwaReference of the run, wherever it is owned
TheReference == IF reference.live THEN reference ELSE aligner.reference

\* C7: the native index handle is passed to bwa_idx_destroy at most once, and
\* only by the drop of the BwaReference that owns it: never before the drop,
\* never a null handle, never after a failed load, and never while a thread is
\* inside align_read_pair.
HandleReleasedOnceAtDrop ==
    /\ Len(destroy_log) <= 1
    /\ stage = "dropped" <=> Len(destroy_log) = 1
    /\ \A i \in 1..Len(destroy_log) : ~destroy_log[i].null
    /\ open_call.null => destroy_log = <<>>
    /\ destroy_log # <<>> => \A t \in Threads : frame[t].pc = "idle"
    /\ \A t \in Threads : frame[t].pc # "idle" => TheReference.live /\ ~TheReference.bwt_data.null

\* the aligner was dropped after two calls ran on it: one release
HandleReleasedWitness ==
    /\ stage = "dropped"
    /\ Len(destroy_log) = 1
    /\ \A t \in Threads : frame[t].calls = 1

\* C8: the name buffer of a call is live, unreleased, and pointed at by both
\* read records from packing until the native routine has returned; it is
\* released exactly once right after, and never again.
NameBufferReleasedOnce ==
    \A t \in Threads :
        LET f == frame[t]
        IN /\ f.raw_name.frees <= 1
           /\ f.pc \in {"packed", "native", "returned"} =>
                /\ f.raw_name.st = "live" /\ f.raw_name.frees = 0
                /\ f.reads[1].name = f.reads[2].name
                /\ f.reads[1].name = <<"raw_name", "name">>
           /\ (f.pc \notin {"idle", "packed", "native", "returned"} /\ f.cause # "name_nul") =>
                f.raw_name.st = "freed" /\ f.raw_name.frees = 1
           /\ f.raw_name.st = "freed" => f.natives = 1

\* a call has returned with its name buffer released once
NameBufferWitness ==
    \E t \in Threads :
        /\ frame[t].pc = "done"
        /\ frame[t].raw_name.frees = 1
        /\ frame[t].reads[1].name = frame[t].reads[2].name

\* the path between the quotes of a Debug rendering, escapes undone
RECURSIVE Unescape(_)
Unescape(bytes) ==
    IF bytes = <<>> THEN <<>>
    ELSE IF Head(bytes) = BACKSLASH /\ Len(bytes) >= 2
         THEN <<bytes[2]>> \o Unescape(SubSeq(bytes, 3, Len(bytes)))
         ELSE <<Head(bytes)>> \o Unescape(Tail(bytes))

NeedsEscape(path) == \E i \in 1..Len(path) : path[i] \in {QUOTE, BACKSLASH}

NoSession ==
    /\ ~reference.live
    /\ ~aligner.reference.live
    /\ hv_builds = 0
    /\ walks = 0
    /\ stage = "failed"

ContigTableMatchesHandle ==
    TheReference.live =>
        LET r == TheReference
            h == r.bwt_data
        IN /\ Len(r.contig_names) = h.n_seqs
           /\ Len(r.contig_lengths) = h.n_seqs
           /\ \A i \in 1..h.n_seqs :
                /\ r.contig_names[i] = h.anns[i].name
                /\ r.contig_lengths[i] = h.anns[i].len

\* a two-contig reference, chr before PhiX, still held by an aligner on which
\* a call has returned
ContigTableWitness ==
    /\ stage = "session"
    /\ aligner.reference.contig_names = <<"chr", "PhiX">>
    /\ aligner.reference.contig_lengths = <<4639675, 5386>>
    /\ \E t \in Threads : frame[t].calls = 1

\* ------------------------------------------------------------- header (C11)
\* the bytes of "@SQ\tSN:PhiX\tLN:5386\n@SQ\tSN:chr\tLN:4639675" (lib.rs:399)
PhiXChrText ==
    <<64, 83, 81, 9, 83, 78, 58, 80, 104, 105, 88, 9, 76, 78, 58, 53, 51, 56, 54,
      10, 64, 83, 81, 9, 83, 78, 58, 99, 104, 114, 9, 76, 78, 58, 52, 54, 51, 57, 54,
      55, 53>>

\* C11: a header built by create_bam_header from a reference whose index has
\* n contigs holds exactly n SQ records, the i-th with the name and the length
\* of the i-th contig of the index; for PhiX (5386) then chr (4639675) its
\* text is the two @SQ lines of the header test, in that order.
HeaderFollowsContigs ==
    header_out.built =>
        LET idx == TheReference.bwt_data
            h == header_out.header
        IN /\ TheReference.live
           /\ Len(h) = idx.n_seqs
           /\ \A i \in 1..Len(h) :
                /\ h[i].rec = "SQ"
                /\ h[i].SN = idx.anns[i].name
                /\ h[i].LN = idx.anns[i].len
           /\ (idx.anns = <<PhiX, Chr>> => header_out.text = PhiXChrText)

\* a header was built from the reference of the header test
HeaderFollowsContigsWitness ==
    /\ header_out.built
    /\ TheReference.bwt_data.anns = <<PhiX, Chr>>
    /\ Len(header_out.header) = 2
    /\ header_out.text # <<>>
    /\ last_op.op = "create_bam_header"

\* ------------------------------------------------------------- determinism (C12)
\* C12: on one session, two align_read_pair calls with identical inputs return
\* identical record sequences, whatever other calls ran before or between
\* them: a call that has ended, with the arguments of a call that returned
\* earlier, has returned too, and with the same two record sequences.
IdenticalCallsIdenticalRecords ==
    /\ \A x \in returned, y \in returned : x.args = y.args => x = y
    /\ \A x \in returned : \A t \in Threads :
            (frame[t].pc \in {"done", "panicked"} /\ frame[t].args = x.args)
                => /\ frame[t].pc = "done"
                   /\ frame[t].recs1 = x.recs1
                   /\ frame[t].recs2 = x.recs2

\* ------------------------------------------------------------- settings (C13)
\* the six score fields and the matrix right after set_scores(args)
ScoresWritten(args) ==
    /\ settings.a = args[1]
    /\ settings.b = args[2]
    /\ settings.o_del = args[3]
    /\ settings.o_ins = args[3]
    /\ settings.e_del = args[4]
    /\ settings.e_ins = args[4]

\* C13: after any chain of setters from the default settings the scoring
\* matrix is the one the native builder derives from the current match and
\* mismatch scores; set_scores writes match, mismatch, both gap-open and both
\* gap-extend fields (and rebuilds the matrix); a step of any other operation
\* changes neither match, nor mismatch, nor the matrix.
ScoringMatrixFollowsScores ==
    /\ [](/\ settings.mat = bwa_fill_scmat(settings.a, settings.b)
          /\ (last_op.op = "set_scores" => ScoresWritten(last_op.args)))
    /\ [][last_op'.op # "set_scores"
            => /\ settings'.a = settings.a
               /\ settings'.b = settings.b
               /\ settings'.mat = settings.mat]_vars

\* set_scores(2, -1, 3, 3), then set_no_multi, then set_clip_scores have run
ScoringMatrixWitness ==
    /\ last_op.op = "set_clip_scores"
    /\ settings.a = 2
    /\ settings.b = -1
    /\ settings.flag = MEM_F_NO_MULTI
    /\ settings.mat[1] = 2
    /\ settings.mat[2] = 1
    /\ settings.mat # mem_opt_init.mat

\* ------------------------------------------------------------- statistics (C14)
\* the slot of the forward-reverse orientation: index 1 of 0..3 in the native
\* table, the second element here
ForwardReverse == 2

\* the fixed "failed" sentinel
FailedSentinel == [failed |-> 1, low |-> 0, high |-> 0, avg |-> 0, std |-> 100]

\* C14: every PairedEndStats made by simple or default has exactly one
\* non-failed slot, the forward-reverse one, holding the supplied values
\* (200, 100, 35, 600 for default), and three slots equal to the failed
\* sentinel; no step other than a construction changes the table.
PairedEndTableShape ==
    /\ [](/\ Len(pe_stats.inner) = 4
          /\ {i \in 1..4 : pe_stats.inner[i].failed = 0} = {ForwardReverse}
          /\ \A i \in (1..4) \ {ForwardReverse} : pe_stats.inner[i] = FailedSentinel
          /\ (last_op.op = "simple" =>
                pe_stats.inner[ForwardReverse] =
                    [failed |-> 0, low |-> last_op.args[3], high |-> last_op.args[4],
                     avg |-> last_op.args[1], std |-> last_op.args[2]])
          /\ (last_op.op \in {"default", "none"} =>
                pe_stats.inner[ForwardReverse] =
                    [failed |-> 0, low |-> 35, high |-> 600, avg |-> 200, std |-> 100]))
    /\ [][last_op'.op \notin {"simple", "default"} => pe_stats' = pe_stats]_vars

\* a table made by simple(350, 100, 0, 600) is held by a session
PairedEndTableWitness ==
    /\ stage = "session"
    /\ last_op.op = "simple"
    /\ pe_stats.inner[ForwardReverse].avg = 350
    /\ pe_stats.inner[ForwardReverse].low = 0

\* ------------------------------------------------------------- lock scope (C15)
\* C15: a thread holds the decode lock only while it decodes one line: never
\* while it runs the native routine (or packs, frees or iterates), and the
\* lock acquired for a line is released before the next line is taken.
LockHeldOnlyForOneLine ==
    /\ mutex.owner \in Threads \cup {0}
    /\ \A t \in Threads :
        /\ mutex.owner = t =>
                /\ frame[t].pc \in {"from_sam", "from_sam2", "unlock"}
                /\ NonEmpty(frame[t].slc)
        /\ frame[t].pc \in {"packed", "native", "returned", "parse", "iter", "lock",
                            "free1", "free2", "done", "idle", "panicked"}
                => mutex.owner # t

\* one thread runs the native routine while the other holds the lock for a
\* line that is not the first of its call
LockHeldOnlyForOneLineWitness ==
    \E t \in Threads, u \in Threads :
        /\ t # u
        /\ frame[t].pc = "native"
        /\ mutex.owner = u
        /\ frame[u].pc = "from_sam2"
        /\ Len(frame[u].recs1) + Len(frame[u].records) >= 1

\* ------------------------------------------------------------- failure isolation (C16)
\* C16: a decode failure is fatal only to the call in which it happens: a
\* call whose own lines all decode, running after or next to a call that
\* failed, is granted the decode lock and returns its records; it never
\* panics.
DecodeFailureConfinedToItsCall ==
    \A t \in Threads :
        LET f == frame[t]
        IN (/\ f.pc = "panicked"
            /\ ~HasNul(f.args.name))
                => \E k \in {1, 2} : ~AllDecode(f.args, k)

\* ------------------------------------------------------------- output buffers (C17)
Ended(f) == f.pc \in {"done", "panicked"}

Reading(f) == f.pc \in {"iter", "lock", "from_sam", "from_sam2", "unlock"}

PointsAt(ptr, k) == ptr[1] = "sam" /\ ptr[2] = k

\* the output buffers of a call exist only once its native invocation has
\* returned; while the call parses the text of read k it has invoked the
\* routine, the bytes come from the buffer its own reads[k].sam points at, no
\* buffer is released yet, and the slice being decoded is a line of that
\* buffer; a buffer is released only after both parses, and at most once
BuffersReadWhileLive(f) ==
    /\ f.pc \in {"idle", "packed", "native"} =>
            \A k \in {1, 2} : f.sam[k].st = "none" /\ f.reads[k].sam[1] = "null"
    /\ (f.pc = "parse" \/ Reading(f)) =>
            /\ f.natives = 1
            /\ PointsAt(f.reads[f.k].sam, f.k)
            /\ \A k \in {1, 2} : f.sam[k].st = "live"
    /\ Reading(f) =>
            LET text == BufferText(f.sam[f.k])
            IN /\ \E i \in 1..(Len(text) + 1) : f.it.v = SubSeq(text, i, Len(text))
               /\ NonEmpty(f.slc) =>
                    \E i \in 1..Len(LinesOf(text)) : LinesOf(text)[i] = f.slc
    /\ \A k \in {1, 2} :
            /\ f.sam[k].frees <= 1
            /\ f.sam[k].st = "freed" => f.pc \in (IF k = 1 THEN {"free2", "done"} ELSE {"done"})

\* C17, as claimed: every align_read_pair call invokes the native routine
\* exactly once, reads each output buffer only after that invocation
\* returned and before the buffer is released, and reads and releases only
\* the buffers it received itself.
NativeOnceThenBuffersRead ==
    \A t \in Threads :
        /\ frame[t].natives <= 1
        /\ Ended(frame[t]) => frame[t].natives = 1
        /\ BuffersReadWhileLive(frame[t])

\* C17, amended: a call invokes the native routine at most once: not at all
\* when its name holds a NUL byte (the call panics before the invocation),
\* exactly once otherwise; the reads and the releases of the output buffers
\* are as claimed.
NativeAtMostOnceThenBuffersRead ==
    \A t \in Threads :
        /\ frame[t].natives <= 1
        /\ Ended(frame[t]) =>
                frame[t].natives = (IF HasNul(frame[t].args.name) THEN 0 ELSE 1)
        /\ BuffersReadWhileLive(frame[t])

\* one call has returned after releasing both of its buffers once, while the
\* other decodes a line of its second buffer, both of its buffers live
NativeAtMostOnceWitness ==
    \E t \in Threads, u \in Threads :
        /\ t # u
        /\ frame[t].pc = "done"
        /\ frame[t].natives = 1
        /\ \A k \in {1, 2} : frame[t].sam[k].st = "freed" /\ frame[t].sam[k].frees = 1
        /\ frame[u].pc = "from_sam2"
        /\ frame[u].k = 2
        /\ frame[u].natives = 1
        /\ \A k \in {1, 2} : frame[u].sam[k].st = "live"

\* ------------------------------------------------------------- header dictionary (C18)
\* the names of the contigs of a native index, in index order
IndexNames(idx) == [i \in 1..idx.n_seqs |-> idx.anns[i].name]

\* C18: the header view is built exactly once, when the session is
\* constructed, from the header of the very reference the session holds: no
\* build before a session exists, one build for a session, targets equal to
\* the contig names of the session's own index, and no step of a session
\* rebuilds the view or replaces its targets.
HeaderViewBuiltOnce ==
    /\ [](/\ hv_builds <= 1
          /\ stage \in {"start", "opened", "failed", "open_panicked"} =>
                hv_builds = 0 /\ header_view.targets = <<>>
          /\ stage = "session" =>
                /\ hv_builds = 1
                /\ aligner.reference.live
                /\ header_view.targets = IndexNames(aligner.reference.bwt_data))
    /\ [][stage = "session" =>
            /\ hv_builds' = hv_builds
            /\ header_view'.targets = header_view.targets]_vars

\* a session over a two-contig index on which a call has decoded and returned
HeaderViewBuiltOnceWitness ==
    /\ stage = "session"
    /\ hv_builds = 1
    /\ header_view.targets = <<"PhiX", "chr">>
    /\ header_view.scratch # <<>>
    /\ \E t \in Threads : frame[t].calls = 1

\* ------------------------------------------------------------- progress (C19)
\* no call has failed to decode a line
EveryLineDecodes == \A t \in Threads : frame[t].cause # "decode"

\* the lock is free whenever no thread is decoding, and a thread that holds
\* it waits for nothing: it can take its next step
LockFreeOutsideDecode ==
    /\ (\A t \in Threads : ~InDecode(frame[t])) => mutex.owner = 0
    /\ \A t \in Threads : mutex.owner = t => ENABLED Step(t)

\* C19, as claimed: under fair scheduling, given that every line decodes,
\* every call eventually returns (none ends in a panic that is not a decode
\* failure or its aftermath), and the lock is free whenever no thread is
\* decoding.
EveryCallReturns ==
    /\ []LockFreeOutsideDecode
    /\ [](\A t \in Threads : frame[t].pc = "panicked" => frame[t].cause \in {"decode", "poisoned"})
    /\ ([]EveryLineDecodes) =>
            \A t \in Threads :
                [](frame[t].pc # "idle" => <>(frame[t].pc = "done"))

\* C19, amended: as claimed, for the calls whose name holds no NUL byte (a
\* call with such a name panics before it takes any lock).
EveryCallWithoutNulReturns ==
    /\ []LockFreeOutsideDecode
    /\ [](\A t \in Threads : frame[t].pc = "panicked" =>
                \/ frame[t].cause \in {"decode", "poisoned"}
                \/ frame[t].cause = "name_nul" /\ HasNul(frame[t].args.name))
    /\ ([]EveryLineDecodes) =>
            \A t \in Threads :
                []((frame[t].pc # "idle" /\ ~HasNul(frame[t].args.name))
                        => <>(frame[t].pc = "done"))

\* both threads have contended for the lock and both calls have returned
\* their records
EveryCallReturnsWitness ==
    /\ ~mutex.poisoned
    /\ mutex.owner = 0
    /\ \A t \in Threads :
        /\ frame[t].pc = "done"
        /\ Len(frame[t].recs1) >= 1
        /\ Len(frame[t].recs2) >= 1

====
